---- MODULE Spec2Model ----
(***************************************************************************)
(* Model of imageResizer.py: thumbnail cleanup, filename normalisation,    *)
(* cataloguing into image_list.txt, and thumbnail generation for static    *)
(* images and animated GIFs, over one folder.                              *)
(*                                                                         *)
(* A filename is a sequence of one-character strings.  The folder is a     *)
(* function from the names present to the content stored under each name.  *)
(***************************************************************************)
EXTENDS Naturals, Sequences, FiniteSets, TLC

VARIABLES
    pc,             \* position of the script inside resize_images_in_folder
    folder,         \* the directory: name -> content
    listing,        \* the names of the current os.listdir result not yet visited
    image_formats,  \* the catalog dict: format -> list of cleaned names
    log,            \* the lines printed so far, as a set of <<run, kind, subject>>
    raised,         \* TRUE when an exception escaped resize_images_in_folder
    run,            \* 1 for the first invocation of the script, 2 for the second
    failures,       \* number of operations that failed so far
    hist,           \* observations of the run (what was listed, written, failed)
    fn,             \* clean_filename harness: [st, input, once, twice]
    gif             \* resize_gif harness: [st, input, result]

vars == <<pc, folder, listing, image_formats, log, raised, run, failures, hist, fn, gif>>

-----------------------------------------------------------------------------
(* Bounds *)

MaxFiles == 2       \* entries in the folder when the script is first started
MaxFailures == 1    \* operations that fail without the folder forcing them to
MaxFrames == 3      \* frames of a GIF
MaxLen == 3         \* length of the names given to clean_filename alone

-----------------------------------------------------------------------------
(* Strings *)

SPACE == " "
LPAREN == "("
RPAREN == ")"
DOT == "."

Uppers == <<"A","B","C","D","E","F","G","H","I","J","K","L","M",
            "N","O","P","Q","R","S","T","U","V","W","X","Y","Z">>
Lowers == <<"a","b","c","d","e","f","g","h","i","j","k","l","m",
            "n","o","p","q","r","s","t","u","v","w","x","y","z">>

\* str.lower() on one character
LowerChar(c) ==
    IF \E i \in DOMAIN Uppers : Uppers[i] = c
    THEN Lowers[CHOOSE i \in DOMAIN Uppers : Uppers[i] = c]
    ELSE c

\* str.lower()
lower(s) == [i \in DOMAIN s |-> LowerChar(s[i])]

\* str.endswith(suffix)
endswith(s, suf) ==
    /\ Len(suf) <= Len(s)
    /\ SubSeq(s, Len(s) - Len(suf) + 1, Len(s)) = suf

\* sub in s
contains(s, sub) ==
    \E i \in 1..(Len(s) + 1) :
        /\ i + Len(sub) - 1 <= Len(s)
        /\ SubSeq(s, i, i + Len(sub) - 1) = sub

\* str.rfind(c): the last position of c, 0 when absent
rfind(s, c) ==
    IF \E i \in DOMAIN s : s[i] = c
    THEN CHOOSE i \in DOMAIN s : s[i] = c /\ \A j \in DOMAIN s : s[j] = c => j <= i
    ELSE 0

\* str.replace(old, ''), scanning left to right
RECURSIVE replace_empty(_, _)
replace_empty(s, old) ==
    IF s = <<>> THEN <<>>
    ELSE IF Head(s) = old THEN replace_empty(Tail(s), old)
    ELSE <<Head(s)>> \o replace_empty(Tail(s), old)

\* A slip: the closing parenthesis is left in the name.
clean_filename_mut(filename) ==
    replace_empty(replace_empty(filename, SPACE), LPAREN)

clean_filename(filename) ==
    replace_empty(replace_empty(replace_empty(filename, SPACE), LPAREN), RPAREN)

-----------------------------------------------------------------------------
(* Paths and formats *)

THUMB == <<"_","t","h","u","m","b">>
PNG == <<"p","n","g">>
JPG == <<"j","p","g">>
JPEG == <<"j","p","e","g">>
GIF == <<"g","i","f">>
DOT_GIF == <<DOT>> \o GIF
IMAGE_LIST == <<"i","m","a","g","e","_","l","i","s","t",".","t","x","t">>

\* The keys of the image_formats dict, in the order the literal inserts them.
FormatOrder == <<PNG, JPG, JPEG, GIF>>
Formats == {FormatOrder[i] : i \in DOMAIN FormatOrder}

\* The tuple given to endswith in the thumbnail stage.
ImageSuffixes == {<<DOT>> \o PNG, <<DOT>> \o JPG, <<DOT>> \o JPEG, DOT_GIF}

\* filename.lower().endswith(('.png', '.jpg', '.jpeg', '.gif'))
is_image(filename) == \E suf \in ImageSuffixes : endswith(lower(filename), suf)

\* cleaned_filename.split('.')[-1].lower()
file_extension(cleaned) ==
    lower(SubSeq(cleaned, rfind(cleaned, DOT) + 1, Len(cleaned)))

\* os.path.splitext on a name without separators: the extension starts at the
\* last dot, unless only dots precede it.
splitext(p) ==
    LET dotIndex == rfind(p, DOT) IN
    IF dotIndex > 0 /\ \E k \in 1..(dotIndex - 1) : p[k] # DOT
    THEN <<SubSeq(p, 1, dotIndex - 1), SubSeq(p, dotIndex, Len(p))>>
    ELSE <<p, <<>>>>

\* f"{name}_thumb{ext}"
thumb_name(filename) ==
    LET sp == splitext(filename) IN sp[1] \o THUMB \o sp[2]

\* A slip: only names ending in _thumb (before the extension) are matched.
is_thumb_mut(filename) == endswith(splitext(filename)[1], THUMB)

\* '_thumb' in filename
is_thumb(filename) == contains(filename, THUMB)

-----------------------------------------------------------------------------
(* The manifest text *)

NL == "\n"
FORMAT_PREFIX == <<"F","o","r","m","a","t",":"," ">>
FILE_PREFIX == <<"-"," ">>

RECURSIVE Concat(_)
Concat(chunks) ==
    IF chunks = <<>> THEN <<>> ELSE Head(chunks) \o Concat(Tail(chunks))

\* The f.write calls of one format: header, one line per file, blank line.
format_writes(format, files) ==
    <<FORMAT_PREFIX \o format \o <<NL>>>>
    \o [i \in DOMAIN files |-> FILE_PREFIX \o files[i] \o <<NL>>]
    \o << <<NL>> >>

\* A slip: an empty format is left out of the manifest.
manifest_writes_mut(formats) ==
    Concat([i \in DOMAIN FormatOrder |->
        IF formats[FormatOrder[i]] = <<>> THEN <<>>
        ELSE format_writes(FormatOrder[i], formats[FormatOrder[i]])])

\* The f.write calls of the manifest, in order: image_formats.items()
manifest_writes(formats) ==
    Concat([i \in DOMAIN FormatOrder |->
        format_writes(FormatOrder[i], formats[FormatOrder[i]])])

-----------------------------------------------------------------------------
(* resize_gif *)

\* duration=0.1, as the fraction 1/10
GIF_DURATION == <<1, 10>>

FrameOutcomes == {"ok", "decode", "proc"}

\* What the environment does to one call: whether get_reader opens the file,
\* what happens to each frame ("decode": the reader fails to produce it,
\* "proc": fromarray, convert or resize fails on it), whether mimsave succeeds.
GifInputs ==
    [open : BOOLEAN,
     frames : UNION {[1..n -> FrameOutcomes] : n \in 1..MaxFrames},
     save : BOOLEAN]

\* The for loop over the reader.  The reader's iteration is outside the inner
\* try: a frame it fails to produce leaves the loop with the exception.
RECURSIVE read_frames(_, _, _, _)
read_frames(frames, i, resized_frames, msgs) ==
    IF i > Len(frames)
    THEN [raised |-> FALSE, resized_frames |-> resized_frames, msgs |-> msgs]
    ELSE IF frames[i] = "decode"
    THEN [raised |-> TRUE, resized_frames |-> resized_frames, msgs |-> msgs]
    ELSE IF frames[i] = "proc"
    THEN read_frames(frames, i + 1, resized_frames,
                     Append(msgs, "Error processing frame"))
    ELSE read_frames(frames, i + 1, Append(resized_frames, i), msgs)

resize_gif(input) ==
    IF ~input.open
    THEN [end |-> "open", frames |-> <<>>, msgs |-> <<"Error resizing GIF">>]
    ELSE
        LET r == read_frames(input.frames, 1, <<>>, <<>>) IN
        IF r.raised
        THEN [end |-> "decode", frames |-> <<>>,
              msgs |-> Append(r.msgs, "Error resizing GIF")]
        ELSE IF ~input.save
        THEN [end |-> "save", frames |-> <<>>,
              msgs |-> Append(r.msgs, "Error resizing GIF")]
        ELSE [end |-> "saved",
              frames |-> [k \in DOMAIN r.resized_frames |->
                            [src |-> r.resized_frames[k], duration |-> GIF_DURATION]],
              msgs |-> Append(r.msgs, "Resized and saved GIF")]

gif_failed(input) ==
    \/ ~input.open
    \/ ~input.save
    \/ \E i \in DOMAIN input.frames : input.frames[i] # "ok"

-----------------------------------------------------------------------------
(* The folder *)

\* Names the folder may hold when the script is first started.
NamePool ==
    { <<"a",".","p","n","g">>,
      <<"a"," ","(","1",")",".","J","P","G">>,
      <<"o","l","d","_","t","h","u","m","b",".","p","n","g">>,
      <<"a","_","(","t","h","u","m","b",")",".","p","n","g">>,
      <<"a"," ",".","p","n","g">>,
      <<"c",".","g","i","f">>,
      <<"b",".","j","p","e","g">>,
      <<".","p","n","g">>,
      <<"p","n","g">>,
      <<"n",".","t","x","t">>,
      <<"x","_","t","h","u","m","b","s">>,
      <<"("," ",")">> }

EmptyFolder == [n \in {} |-> <<>>]

Put(fld, name, content) ==
    [n \in DOMAIN fld \cup {name} |-> IF n = name THEN content ELSE fld[n]]

\* os.remove
Remove(fld, name) == [n \in DOMAIN fld \ {name} |-> fld[n]]

\* os.rename: the content moves to the new name, replacing what was there.
Rename(fld, old, new) == Put(Remove(fld, old), new, fld[old])

\* os.listdir returns the names present, in an order the file system chooses.
\* The loops below visit the names of the listing one at a time, and the
\* order shows only as they are visited: each iteration takes any name left.
listdir(fld) == DOMAIN fld

Range(s) == {s[i] : i \in DOMAIN s}

\* Any file-system or imaging operation may raise; MaxFailures bounds how many
\* do so in one behaviour (a rename that cannot succeed fails regardless).
MayFail == failures < MaxFailures

Logged(kind, subject) == log \cup {<<run, kind, subject>>}

EmptyCatalog == [f \in Formats |-> <<>>]

\* What a run has observed so far:
\*   cleanup       whether the listing of delete_thumb_files succeeded
\*   cleanupPre    the folder as delete_thumb_files listed it
\*   delFailed     the names whose os.remove raised
\*   renameSeen    the names the rename loop has visited, in order (kept until
\*                 the thumbnail stage lists the folder)
\*   renameFailed  the names whose os.rename raised
\*   manifest      whether the manifest write succeeded
\*   thumbPre      the folder as the thumbnail stage listed it
\*   dispatched    the names the thumbnail stage tried to resize
\*   thumbFailed   the names whose thumbnail was not saved
\*   thumbWritten  the thumbnail paths saved
\*   after1        the names in the folder when the first run ended
NoHist ==
    [cleanup |-> "none", cleanupPre |-> EmptyFolder, delFailed |-> {},
     renameSeen |-> <<>>, renameFailed |-> {}, manifest |-> "none",
     thumbPre |-> EmptyFolder, dispatched |-> {}, thumbFailed |-> {},
     thumbWritten |-> {}, after1 |-> {}]

FnIdle == [st |-> "idle", input |-> <<>>, once |-> <<>>, twice |-> <<>>]
GifIdle == [st |-> "idle", input |-> <<>>, result |-> <<>>]

Init ==
    /\ pc = "cleanup"
    /\ \E S \in SUBSET NamePool :
        /\ Cardinality(S) <= MaxFiles
        /\ folder = [n \in S |-> <<"orig", n>>]
    /\ listing = {}
    /\ image_formats = EmptyCatalog
    /\ log = {}
    /\ raised = FALSE
    /\ run = 1
    /\ failures = 0
    /\ hist = NoHist
    /\ fn = FnIdle
    /\ gif = GifIdle

-----------------------------------------------------------------------------
(* delete_thumb_files *)

\* os.listdir(folder_path) at the head of the for loop, inside the try.
DeleteThumbList ==
    /\ pc = "cleanup"
    /\ pc' = "cleanup_loop"
    /\ \/ /\ listing' = listdir(folder)
          /\ hist' = [hist EXCEPT !.cleanup = "listed", !.cleanupPre = folder]
          /\ UNCHANGED <<log, failures>>
       \/ /\ MayFail
          /\ listing' = {}
          /\ hist' = [hist EXCEPT !.cleanup = "listfail"]
          /\ log' = Logged("Error deleting files", <<>>)
          /\ failures' = failures + 1
    /\ UNCHANGED <<folder, image_formats, raised, run, fn, gif>>

\* What is left to iterate after os.remove raised: the try encloses the whole
\* for loop, so the exception leaves the loop.
delete_failed_rest(rest) == {}

\* One iteration of the for loop.
DeleteThumbStep ==
    /\ pc = "cleanup_loop"
    /\ \E filename \in listing :
        IF ~is_thumb(filename)
        THEN /\ listing' = listing \ {filename}
             /\ UNCHANGED <<folder, log, failures, hist>>
        ELSE \/ /\ filename \in DOMAIN folder
                /\ folder' = Remove(folder, filename)
                /\ log' = Logged("Deleted", filename)
                /\ listing' = listing \ {filename}
                /\ UNCHANGED <<failures, hist>>
             \/ /\ MayFail
                /\ log' = Logged("Error deleting files", filename)
                /\ listing' = delete_failed_rest(listing \ {filename})
                /\ hist' = [hist EXCEPT !.delFailed = @ \cup {filename}]
                /\ failures' = failures + 1
                /\ UNCHANGED folder
    /\ UNCHANGED <<pc, image_formats, raised, run, fn, gif>>

-----------------------------------------------------------------------------
(* resize_images_in_folder: rename and catalog *)

\* os.listdir(folder_path) at the head of the rename loop, outside any try.
RenameList ==
    /\ pc = "cleanup_loop"
    /\ listing = {}
    /\ \/ /\ listing' = listdir(folder)
          /\ pc' = "rename_loop"
          /\ UNCHANGED <<raised, failures>>
       \/ /\ MayFail
          /\ raised' = TRUE
          /\ pc' = "raised"
          /\ failures' = failures + 1
          /\ UNCHANGED listing
    /\ UNCHANGED hist
    /\ UNCHANGED <<folder, image_formats, log, run, fn, gif>>

\* A slip: the format is looked up with its case kept.
catalog_mut(formats, cleaned_filename) ==
    LET ext == SubSeq(cleaned_filename, rfind(cleaned_filename, DOT) + 1,
                      Len(cleaned_filename)) IN
    IF ext \in Formats
    THEN [formats EXCEPT ![ext] = Append(@, cleaned_filename)]
    ELSE formats

\* if file_extension in image_formats: image_formats[...].append(cleaned_filename)
catalog(formats, cleaned_filename) ==
    LET ext == file_extension(cleaned_filename) IN
    IF ext \in Formats
    THEN [formats EXCEPT ![ext] = Append(@, cleaned_filename)]
    ELSE formats

\* os.rename cannot succeed when the source is gone or when the cleaned name
\* is empty (the new path is then the folder itself).
rename_must_fail(fld, filename, cleaned_filename) ==
    filename \notin DOMAIN fld \/ cleaned_filename = <<>>

\* One iteration of the rename loop, with its try and except.
RenameStep ==
    /\ pc = "rename_loop"
    /\ \E filename \in listing :
       LET cleaned_filename == clean_filename(filename) IN
        /\ listing' = listing \ {filename}
        /\ \/ /\ \/ /\ filename = cleaned_filename
                    /\ UNCHANGED folder
                 \/ /\ filename # cleaned_filename
                    /\ ~rename_must_fail(folder, filename, cleaned_filename)
                    /\ folder' = Rename(folder, filename, cleaned_filename)
              /\ image_formats' = catalog(image_formats, cleaned_filename)
              /\ hist' = [hist EXCEPT !.renameSeen = Append(@, filename)]
              /\ UNCHANGED <<log, failures>>
           \/ /\ filename # cleaned_filename
              /\ MayFail \/ rename_must_fail(folder, filename, cleaned_filename)
              /\ log' = Logged("Error processing file", filename)
              /\ hist' = [hist EXCEPT !.renameSeen = Append(@, filename),
                                      !.renameFailed = @ \cup {filename}]
              /\ failures' = failures + 1
              /\ UNCHANGED <<folder, image_formats>>
    /\ UNCHANGED <<pc, raised, run, fn, gif>>

\* The prefixes of the manifest a failed write can leave behind: the file is
\* truncated on open, then some of the f.write calls have taken effect.
partial_texts(writes) ==
    {Concat(SubSeq(writes, 1, k)) : k \in 0..(Len(writes) - 1)}

\* The manifest write, with its try and except.
WriteManifest ==
    /\ pc = "rename_loop"
    /\ listing = {}
    /\ pc' = "thumb_list"
    /\ LET writes == manifest_writes(image_formats) IN
        \/ /\ folder' = Put(folder, IMAGE_LIST, <<"text", Concat(writes)>>)
           /\ hist' = [hist EXCEPT !.manifest = "ok"]
           /\ UNCHANGED <<log, failures>>
        \/ /\ MayFail
           /\ \/ UNCHANGED folder
              \/ \E t \in partial_texts(writes) :
                    folder' = Put(folder, IMAGE_LIST, <<"text", t>>)
           /\ hist' = [hist EXCEPT !.manifest = "fail"]
           /\ log' = Logged("Error writing image list", <<>>)
           /\ failures' = failures + 1
    /\ UNCHANGED <<listing, image_formats, raised, run, fn, gif>>

-----------------------------------------------------------------------------
(* resize_images_in_folder: thumbnails *)

\* os.listdir(folder_path) at the head of the thumbnail loop, outside any try.
ThumbList ==
    /\ pc = "thumb_list"
    /\ \/ /\ listing' = listdir(folder)
          /\ hist' = [hist EXCEPT !.thumbPre = folder, !.renameSeen = <<>>]
          /\ pc' = "thumb_loop"
          /\ UNCHANGED <<raised, failures>>
       \/ /\ MayFail
          /\ raised' = TRUE
          /\ pc' = "raised"
          /\ failures' = failures + 1
          /\ UNCHANGED <<listing, hist>>
    /\ UNCHANGED <<folder, image_formats, log, run, fn, gif>>

\* How the static branch can end: saved, or Image.open, resize or save raised.
StaticEnds ==
    {[how |-> h, msgs |-> IF h = "saved" THEN {"Resized and saved"}
                          ELSE {"Error resizing image"},
      fault |-> h # "saved"] : h \in {"saved", "open", "resize", "save"}}

\* How resize_gif can end.  It catches everything itself, so the except of
\* the thumbnail loop never runs for a GIF.
GifEnds ==
    {[how |-> resize_gif(input).end, msgs |-> Range(resize_gif(input).msgs),
      fault |-> gif_failed(input)] : input \in GifInputs}

\* A rewrite that stops at the first thumbnail that fails.
thumb_failed_rest_mut(rest) == {}

\* What is left to iterate after a thumbnail failed: the try is inside the
\* loop, so the loop goes on.
thumb_failed_rest(rest) == rest

\* One iteration of the thumbnail loop.  A save that fails may leave a file at
\* the thumbnail path.
ThumbStep ==
    /\ pc = "thumb_loop"
    /\ \E filename \in listing :
        LET new_filename == thumb_name(filename)
            ends == IF endswith(lower(filename), DOT_GIF) THEN GifEnds
                    ELSE StaticEnds
        IN
        IF ~is_image(filename)
        THEN /\ listing' = listing \ {filename}
             /\ UNCHANGED <<folder, log, failures, hist>>
        ELSE \E e \in ends :
            LET failed == e.how # "saved" IN
            /\ e.fault => MayFail
            /\ \/ /\ ~failed
                  /\ folder' = Put(folder, new_filename, <<"thumb", filename>>)
               \/ /\ e.how = "save"
                  /\ folder' = Put(folder, new_filename, <<"partial", filename>>)
               \/ /\ failed
                  /\ UNCHANGED folder
            /\ log' = log \cup {<<run, m, filename>> : m \in e.msgs}
            /\ failures' = IF e.fault THEN failures + 1 ELSE failures
            /\ hist' = [hist EXCEPT
                  !.dispatched = @ \cup {filename},
                  !.thumbFailed = IF failed THEN @ \cup {filename} ELSE @,
                  !.thumbWritten = IF ~failed THEN @ \cup {new_filename} ELSE @]
            /\ listing' = IF failed THEN thumb_failed_rest(listing \ {filename})
                          ELSE listing \ {filename}
    /\ UNCHANGED <<pc, image_formats, raised, run, fn, gif>>

\* The call returns and the script prints "Done!".
Finish ==
    /\ pc = "thumb_loop"
    /\ listing = {}
    /\ pc' = "done"
    /\ log' = Logged("Done", <<>>)
    /\ hist' = IF run = 1 THEN [hist EXCEPT !.after1 = DOMAIN folder] ELSE hist
    /\ UNCHANGED <<folder, listing, image_formats, raised, run, failures, fn, gif>>

\* The script is started again on the same folder.
Rerun ==
    /\ pc = "done"
    /\ run = 1
    /\ run' = 2
    /\ pc' = "cleanup"
    /\ image_formats' = EmptyCatalog
    /\ hist' = [NoHist EXCEPT !.after1 = hist.after1]
    /\ UNCHANGED <<folder, listing, log, raised, failures, fn, gif>>

Next ==
    \/ DeleteThumbList
    \/ DeleteThumbStep
    \/ RenameList
    \/ RenameStep
    \/ WriteManifest
    \/ ThumbList
    \/ ThumbStep
    \/ Finish

\* One invocation of the script.
Spec == Init /\ [][Next]_vars

NextTwice == Next \/ Rerun

\* Two invocations in a row on the same folder.
SpecTwice == Init /\ [][NextTwice]_vars

-----------------------------------------------------------------------------
(* clean_filename alone, on every name up to MaxLen over CleanAlphabet *)

CleanAlphabet == {SPACE, LPAREN, RPAREN, DOT, "a", "_"}

CleanInputs == UNION {[1..n -> CleanAlphabet] : n \in 0..MaxLen}

InitClean ==
    /\ pc = "harness"
    /\ folder = EmptyFolder
    /\ listing = {}
    /\ image_formats = EmptyCatalog
    /\ log = {}
    /\ raised = FALSE
    /\ run = 1
    /\ failures = 0
    /\ hist = NoHist
    /\ \E f \in CleanInputs : fn = [FnIdle EXCEPT !.st = "input", !.input = f]
    /\ gif = GifIdle

CleanOnce ==
    /\ fn.st = "input"
    /\ fn' = [fn EXCEPT !.st = "once", !.once = clean_filename(fn.input)]
    /\ UNCHANGED <<pc, folder, listing, image_formats, log, raised, run, failures,
                   hist, gif>>

CleanTwice ==
    /\ fn.st = "once"
    /\ fn' = [fn EXCEPT !.st = "twice", !.twice = clean_filename(fn.once)]
    /\ UNCHANGED <<pc, folder, listing, image_formats, log, raised, run, failures,
                   hist, gif>>

NextClean == CleanOnce \/ CleanTwice

SpecClean == InitClean /\ [][NextClean]_vars

-----------------------------------------------------------------------------
(* resize_gif alone, on every GIF up to MaxFrames frames *)

InitGif ==
    /\ pc = "harness"
    /\ folder = EmptyFolder
    /\ listing = {}
    /\ image_formats = EmptyCatalog
    /\ log = {}
    /\ raised = FALSE
    /\ run = 1
    /\ failures = 0
    /\ hist = NoHist
    /\ fn = FnIdle
    /\ \E input \in GifInputs : gif = [GifIdle EXCEPT !.st = "input", !.input = input]

GifCall ==
    /\ gif.st = "input"
    /\ gif' = [gif EXCEPT !.st = "returned", !.result = resize_gif(gif.input)]
    /\ UNCHANGED <<pc, folder, listing, image_formats, log, raised, run, failures,
                   hist, fn>>

NextGif == GifCall

SpecGif == InitGif /\ [][NextGif]_vars

-----------------------------------------------------------------------------
(* Properties *)

AfterCleanup == pc = "cleanup_loop" /\ listing = {}
AfterManifest == pc = "thumb_list"
Cataloged == UNION {Range(image_formats[f]) : f \in Formats}
HasDot(name) == \E i \in DOMAIN name : name[i] = DOT

\* C1: resize_images_in_folder never raises an error to its caller, whatever
\* operation fails.
C1_NeverRaises == ~raised

\* C2: once the listing has succeeded, a failed deletion does not stop the
\* cleanup: every other entry whose name contains _thumb is deleted.
C2_DeleteFailureIsolated ==
    (AfterCleanup /\ hist.cleanup = "listed") =>
        \A n \in DOMAIN hist.cleanupPre :
            (contains(n, THUMB) /\ n \notin hist.delFailed) => n \notin DOMAIN folder

\* C3: with no operation failing, the set of filenames after the second run
\* equals the set after the first run.
C3_SecondRunSameFiles ==
    (run = 2 /\ pc = "done" /\ failures = 0) => DOMAIN folder = hist.after1

\* C4: after a full run every recognised image that was in the folder when
\* thumbnail generation began has its _thumb sibling, unless generating its
\* own thumbnail failed.
C4_SiblingExists ==
    pc = "done" =>
        \A n \in DOMAIN hist.thumbPre :
            (is_image(n) /\ n \notin hist.thumbFailed) =>
                thumb_name(n) \in DOMAIN folder

\* C4 witness: a run ended in which one image's thumbnail failed and another
\* image has its sibling.
C4_Witness ==
    /\ pc = "done"
    /\ \E n, m \in DOMAIN hist.thumbPre :
        /\ n # m /\ is_image(n) /\ is_image(m)
        /\ n \in hist.thumbFailed
        /\ m \notin hist.thumbFailed
        /\ thumb_name(m) \in DOMAIN folder

C6_Survivors(frames) ==
    SelectSeq([i \in DOMAIN frames |-> i], LAMBDA i : frames[i] = "ok")

\* An animated GIF (several frames) that opens and saves, one frame failing.
C6_OneFrameFails(input) ==
    /\ input.open /\ input.save
    /\ Len(input.frames) >= 2
    /\ Cardinality({i \in DOMAIN input.frames : input.frames[i] # "ok"}) = 1

\* C6: when exactly one frame of a GIF fails in decode, convert or resize,
\* resize_gif logs a frame-processing error and writes the other frames, in
\* source order, each with duration 0.1.
C6_OneBadFrameDropped ==
    (gif.st = "returned" /\ C6_OneFrameFails(gif.input)) =>
        /\ gif.result.end = "saved"
        /\ "Error processing frame" \in Range(gif.result.msgs)
        /\ gif.result.frames =
            [k \in DOMAIN C6_Survivors(gif.input.frames) |->
                [src |-> C6_Survivors(gif.input.frames)[k], duration |-> <<1, 10>>]]

C7_Listed(format) ==
    LET done == SelectSeq(hist.renameSeen,
                    LAMBDA f : /\ f \notin hist.renameFailed
                               /\ file_extension(clean_filename(f)) = format)
    IN [i \in DOMAIN done |-> clean_filename(done[i])]

C7_Section(format) ==
    <<"F","o","r","m","a","t",":"," ">> \o format \o <<"\n">>
    \o Concat([i \in DOMAIN C7_Listed(format) |->
                <<"-"," ">> \o C7_Listed(format)[i] \o <<"\n">>])
    \o <<"\n">>

\* C7: whenever the manifest write succeeds, image_list.txt holds the four
\* sections png, jpg, jpeg, gif in that order, each a header line, one line
\* per cataloged file in listing order and a blank line, empty lists included.
C7_ManifestLayout ==
    (AfterManifest /\ hist.manifest = "ok") =>
        /\ IMAGE_LIST \in DOMAIN folder
        /\ folder[IMAGE_LIST] =
            <<"text", C7_Section(<<"p","n","g">>) \o C7_Section(<<"j","p","g">>)
                      \o C7_Section(<<"j","p","e","g">>) \o C7_Section(<<"g","i","f">>)>>

\* C7 witness: a manifest was written with two files under one format and
\* none under another.
C7_Witness ==
    /\ AfterManifest /\ hist.manifest = "ok"
    /\ \E f, g \in Formats : Len(image_formats[f]) = 2 /\ image_formats[g] = <<>>
    /\ IMAGE_LIST \in DOMAIN folder

C8_Removed == {" ", "(", ")"}

\* C8: clean_filename is idempotent, its result holds no space, ( or ), and
\* every other character of the name is kept, in order.
C8_CleanFilename ==
    fn.st = "twice" =>
        /\ fn.twice = fn.once
        /\ \A i \in DOMAIN fn.once : fn.once[i] \notin C8_Removed
        /\ fn.once = SelectSeq(fn.input, LAMBDA c : c \notin C8_Removed)

\* C8 witness: a name holding both a removed and a kept character was cleaned
\* twice.
C8_Witness ==
    /\ fn.st = "twice"
    /\ \E i, j \in DOMAIN fn.input :
        fn.input[i] \in C8_Removed /\ fn.input[j] \notin C8_Removed
    /\ fn.once # fn.input

C10_NoOverwrite ==
    failures = 0 =>
        /\ \A path \in hist.thumbWritten : path \notin DOMAIN hist.thumbPre
        /\ pc = "done" =>
                \A n \in DOMAIN hist.thumbPre :
                    n \in DOMAIN folder /\ folder[n] = hist.thumbPre[n]

====
